---- MODULE Spec2Model ----
(***************************************************************************)
(* A model of src/query.py: class QueryAthena, the client that submits a   *)
(* query to Athena (load_conf), polls its status until it is terminal      *)
(* (run_query), downloads the result CSV from S3 and assembles it from     *)
(* chunks (process_result), and chains the three (create_query).           *)
(*                                                                         *)
(* The Athena service, the S3 blob store and the CSV reader are outside    *)
(* the program: each of their answers is a nondeterministic choice made at *)
(* the call that receives it.                                              *)
(***************************************************************************)
EXTENDS Integers, Sequences, FiniteSets, TLC

(***************************************************************************)
(* Bounds of the model.                                                    *)
(***************************************************************************)
\* Executions the service accepts before the model stops submitting.
MaxExec == 2
\* QUEUED/RUNNING answers the service gives for one execution at most.
MaxPending == 2
\* Chunks the CSV reader yields for one blob at most.
MaxChunks == 2
\* Rows of one chunk at most.
MaxChunkRows == 2

(***************************************************************************)
(* Value domains.                                                          *)
(***************************************************************************)
\* Threads that may hold an invocation, and those that call in Spec: the
\* program is single-threaded, one invocation runs after the other.
Procs == {1, 2}
Callers == {1}

\* Python's None where a response dict is expected (query.py:46, 104).
None == 0
ExecIds == 1 .. MaxExec

\* Query strings handed to load_conf / run_query by a caller.
Queries == {"SELECT 1"}

\* States the service may report; "UNKNOWN" stands for any value outside the
\* five documented ones.
PendingStates == {"QUEUED", "RUNNING"}
ErrorStates == {"FAILED", "CANCELLED"}
States == PendingStates \cup ErrorStates \cup {"SUCCEEDED", "UNKNOWN"}

\* StateChangeReason values; NoReason: the key is missing in the response.
NoReason == "<missing>"
Reasons == {"Insufficient permissions"}

\* Outcomes of s3_client.download_file.
DownloadOutcomes == {"ok", "404", "client_error", "other_error"}

VARIABLES
    conf,         \* self.s3_bucket, self.s3_output, self.database, self.table
    nextId,       \* service: the id the next accepted execution gets
    files,        \* local filesystem: file name -> content
    pc,           \* per thread: where the invocation stands
    op,           \* per thread: the entry point called
    query,        \* per thread: the query string (run_query's `query`)
    res,          \* per thread: run_query's / process_result's `res`
    query_state,  \* per thread: run_query's `query_state`
    file_name,    \* per thread: process_result's `file_name`
    df_parts,     \* per thread: process_result's `df_parts`
    cursor,       \* per thread: chunks the reader has yielded so far
    outcome,      \* per thread: how the invocation ended (return / raise)
    trace,        \* per thread, history: the external calls made, in order
    blob          \* per thread, history: what download_file wrote

vars == <<conf, nextId, files, pc, op, query, res, query_state, file_name,
          df_parts, cursor, outcome, trace, blob>>

prVars == <<file_name, df_parts, cursor, blob>>

(***************************************************************************)
(* Data.                                                                   *)
(***************************************************************************)
RECURSIVE SeqsUpTo(_, _)
\* All sequences over S of length 0..n.
SeqsUpTo(S, n) ==
    IF n = 0 THEN {<<>>}
    ELSE LET shorter == SeqsUpTo(S, n - 1)
         IN  shorter \cup {Append(s, x) : s \in shorter, x \in S}

\* The sum of a sequence of numbers.
RECURSIVE Sum(_)
Sum(sizes) == IF sizes = <<>> THEN 0 ELSE Head(sizes) + Sum(Tail(sizes))

\* A blob's rows are opaque records; the model names each by its position in
\* the blob, 1, 2, ...  The chunked reader cuts them into consecutive chunks:
\* chunk i of Chunked(sizes) holds the sizes[i] rows after those of the
\* chunks before it.
Chunked(sizes) ==
    [i \in 1 .. Len(sizes) |->
        [j \in 1 .. sizes[i] |-> Sum(SubSeq(sizes, 1, i - 1)) + j]]

\* A file's content as the chunked CSV reader sees it: the chunks it yields
\* in order, and bad = TRUE when the text after them is malformed, so that
\* the reader raises instead of yielding a further chunk or stopping.  A
\* well-formed file yields at least one chunk (a header-only file yields one
\* empty chunk); an empty file is malformed at once.
NoFile == [exists |-> FALSE, chunks |-> <<>>, bad |-> FALSE]
Contents ==
    {[exists |-> TRUE, chunks |-> Chunked(sizes), bad |-> b] :
        sizes \in SeqsUpTo(0 .. MaxChunkRows, MaxChunks), b \in BOOLEAN} \
    {[exists |-> TRUE, chunks |-> <<>>, bad |-> FALSE]}

\* One scratch name shared by every invocation.
FileNameOf_shared(id) == <<1, ".csv">>

\* The name without its suffix.
FileNameOf_noSuffix(id) == <<id, "">>

\* file_name = res['QueryExecutionId'] + '.csv'
FileNameOf(id) == <<id, ".csv">>
FileNames == {FileNameOf(id) : id \in ExecIds}
NoName == <<None, "">>

\* The query create_query builds.
FormatQuery(database, table) ==
    "SELECT * FROM " \o database \o "." \o table \o " LIMIT 10"

\* The message of the exception run_query raises.
FormatMessage(q, state, reason) ==
    <<"Athena query with the string", q, "stopped with status", state,
      "More details:", reason>>

\* Values an invocation returns.
NoValue == [tag |-> "none", id |-> None, rows |-> <<>>]
NoneValue == [tag |-> "None", id |-> None, rows |-> <<>>]
Response(id) == [tag |-> "response", id |-> id, rows |-> <<>>]
Table(rows) == [tag |-> "table", id |-> None, rows |-> rows]

\* How an invocation ended.
Running == [kind |-> "none", err |-> "", msg |-> <<>>, val |-> NoValue]
Return(v) == [kind |-> "return", err |-> "", msg |-> <<>>, val |-> v]
Raise(e, m) == [kind |-> "raise", err |-> e, msg |-> m, val |-> NoValue]

(***************************************************************************)
(* History: the calls an invocation makes to the service, the blob store,  *)
(* the clock and the filesystem, with what each answered.                  *)
(***************************************************************************)
Event(call, id, result, reason) ==
    [call |-> call, id |-> id, result |-> result, reason |-> reason]

Log(p, e) == [trace EXCEPT ![p] = Append(@, e)]

\* The status answers thread p has received, in order.
Polled(p) == SelectSeq(trace[p], LAMBDA e : e.call = "get_query_execution")

\* How many times thread p made the call.
Calls(p, call) == Len(SelectSeq(trace[p], LAMBDA e : e.call = call))

(***************************************************************************)
(* __init__: the four settings; the two clients are the environment.       *)
(***************************************************************************)
Buckets == {"athena-bucket"}
OutputLocations == {"s3://out/prefix/"}
Databases == {"db"}
Tables == {"tbl", "logs"}

Init ==
    /\ conf \in [s3_bucket : Buckets, s3_output : OutputLocations,
                 database : Databases, table : Tables]
    /\ nextId = 1
    /\ files = [f \in FileNames |-> NoFile]
    /\ pc = [p \in Procs |-> "idle"]
    /\ op = [p \in Procs |-> "none"]
    /\ query = [p \in Procs |-> ""]
    /\ res = [p \in Procs |-> None]
    /\ query_state = [p \in Procs |-> "None"]
    /\ file_name = [p \in Procs |-> NoName]
    /\ df_parts = [p \in Procs |-> <<>>]
    /\ cursor = [p \in Procs |-> 0]
    /\ outcome = [p \in Procs |-> Running]
    /\ trace = [p \in Procs |-> <<>>]
    /\ blob = [p \in Procs |-> NoFile]

(***************************************************************************)
(* Entering and leaving an invocation.                                     *)
(***************************************************************************)
\* Thread p calls entry point o with query q and response r; the locals of
\* the new invocation start fresh.
Enter(p, o, q, r, start) ==
    /\ pc[p] = "idle"
    /\ pc' = [pc EXCEPT ![p] = start]
    /\ op' = [op EXCEPT ![p] = o]
    /\ query' = [query EXCEPT ![p] = q]
    /\ res' = [res EXCEPT ![p] = r]
    /\ query_state' = [query_state EXCEPT ![p] = "None"]
    /\ file_name' = [file_name EXCEPT ![p] = NoName]
    /\ df_parts' = [df_parts EXCEPT ![p] = <<>>]
    /\ cursor' = [cursor EXCEPT ![p] = 0]
    /\ outcome' = [outcome EXCEPT ![p] = Running]
    /\ trace' = [trace EXCEPT ![p] = <<>>]
    /\ blob' = [blob EXCEPT ![p] = NoFile]
    /\ UNCHANGED <<conf, nextId, files>>

\* The invocation of thread p ends with outcome o (a return or a raise that
\* reaches the caller).
Finish(p, o) ==
    /\ pc' = [pc EXCEPT ![p] = "idle"]
    /\ outcome' = [outcome EXCEPT ![p] = o]

call_load_conf(p) ==
    /\ nextId <= MaxExec
    /\ \E q \in Queries : Enter(p, "load_conf", q, None, "load_conf")

call_run_query(p) ==
    /\ nextId <= MaxExec
    /\ \E q \in Queries : Enter(p, "run_query", q, None, "load_conf")

\* create_query keeping a table name in self.table before it builds the query.
call_create_query_storesTable(p) ==
    /\ nextId <= MaxExec
    /\ pc[p] = "idle"
    /\ conf' = [conf EXCEPT !.table = "logs"]
    /\ pc' = [pc EXCEPT ![p] = "load_conf"]
    /\ op' = [op EXCEPT ![p] = "create_query"]
    /\ query' = [query EXCEPT ![p] = FormatQuery(conf.database, "logs")]
    /\ res' = [res EXCEPT ![p] = None]
    /\ query_state' = [query_state EXCEPT ![p] = "None"]
    /\ file_name' = [file_name EXCEPT ![p] = NoName]
    /\ df_parts' = [df_parts EXCEPT ![p] = <<>>]
    /\ cursor' = [cursor EXCEPT ![p] = 0]
    /\ outcome' = [outcome EXCEPT ![p] = Running]
    /\ trace' = [trace EXCEPT ![p] = <<>>]
    /\ blob' = [blob EXCEPT ![p] = NoFile]
    /\ UNCHANGED <<nextId, files>>

\* create_query, lines 76-80: build the fixed query, then run_query(query).
call_create_query(p) ==
    /\ nextId <= MaxExec
    /\ Enter(p, "create_query", FormatQuery(conf.database, conf.table), None,
             "load_conf")

\* process_result called by itself, with any response or with None.
call_process_result(p) ==
    \E r \in ExecIds \cup {None} :
        Enter(p, "process_result", "", r, "pr_download")

(***************************************************************************)
(* load_conf                                                               *)
(***************************************************************************)
\* load_conf without its except clause: the service's error goes on.
load_conf_propagates(accepted, id) ==
    IF accepted THEN Return(Response(id))
    ELSE Raise("ClientError", <<"start_query_execution">>)

\* What load_conf gives its caller: the service's response when
\* start_query_execution succeeded, None when it raised (except Exception).
load_conf_result(accepted, id) ==
    IF accepted THEN Return(Response(id)) ELSE Return(NoneValue)

\* load_conf, called by a caller or as line 55 of run_query.
load_conf(p) ==
    /\ pc[p] = "load_conf"
    /\ \E accepted \in BOOLEAN :
        LET r == load_conf_result(accepted, nextId)
        IN  /\ nextId' = IF accepted THEN nextId + 1 ELSE nextId
            /\ trace' = Log(p, Event("start_query_execution",
                                     IF accepted THEN nextId ELSE None,
                                     IF accepted THEN "ok" ELSE "error", query[p]))
            /\ IF op[p] = "load_conf" \/ r.kind = "raise"
               THEN Finish(p, r) /\ UNCHANGED res
               ELSE /\ res' = [res EXCEPT ![p] = r.val.id]
                    /\ pc' = [pc EXCEPT ![p] = "rq_loop"]
                    /\ UNCHANGED outcome
    /\ UNCHANGED <<conf, files, op, query, query_state, prVars>>

(***************************************************************************)
(* run_query                                                               *)
(***************************************************************************)
\* The while condition with RUNNING forgotten.
LoopCondition_noRunning(state) == state = "QUEUED" \/ state = "None"

\* Line 57: the while condition.
LoopCondition(state) == state = "QUEUED" \/ state = "RUNNING" \/ state = "None"

\* The test of line 61 with CANCELLED forgotten.
IsErrorState_failedOnly(state) == state = "FAILED"

\* Line 61.
IsErrorState(state) == state = "FAILED" \/ state = "CANCELLED"

\* Line 64 without its break.
IsSuccess_noBreak(state) == FALSE

\* Line 64.
IsSuccess(state) == state = "SUCCEEDED"

\* Lines 62-63: the exception raised on FAILED / CANCELLED.  Reading a
\* missing 'StateChangeReason' raises KeyError before it is built.
ExecutionError(q, state, reason) ==
    IF reason = NoReason
    THEN Raise("KeyError", <<"StateChangeReason">>)
    ELSE Raise("Exception", FormatMessage(q, state, reason))

\* The answers the service may give to a poll of an execution that has
\* answered `pending` times QUEUED or RUNNING already.
StatusAnswers(pending) ==
    {[State |-> s, StateChangeReason |-> r] :
        s \in IF pending < MaxPending THEN States ELSE States \ PendingStates,
        r \in Reasons \cup {NoReason}} \
    {a \in [State : States, StateChangeReason : Reasons] :
        a.State \notin ErrorStates}

PendingSeen(p) ==
    Len(SelectSeq(Polled(p), LAMBDA e : e.result \in PendingStates))

\* Lines 57-65: one turn of the loop, from the test of the condition to the
\* raise, the break or the arrival at the sleep.
rq_poll(p) ==
    /\ pc[p] = "rq_loop"
    /\ LoopCondition(query_state[p])
    /\ IF res[p] = None
       THEN \* None["QueryExecutionId"], line 58
            /\ Finish(p, Raise("TypeError", <<"NoneType">>))
            /\ UNCHANGED <<query_state, trace>>
       ELSE \E query_status \in StatusAnswers(PendingSeen(p)) :
            LET state == query_status.State
            IN  /\ trace' = Log(p, Event("get_query_execution", res[p], state,
                                         query_status.StateChangeReason))
                /\ query_state' = [query_state EXCEPT ![p] = state]
                /\ IF IsErrorState(state)
                   THEN Finish(p, ExecutionError(query[p], state,
                                                 query_status.StateChangeReason))
                   ELSE /\ pc' = [pc EXCEPT ![p] =
                                     IF IsSuccess(state) THEN "rq_done"
                                     ELSE "rq_sleep"]
                        /\ UNCHANGED outcome
    /\ UNCHANGED <<conf, nextId, files, op, query, res, prVars>>

\* The loop without its sleep: back to the test at once.
rq_sleep_skipped(p) ==
    /\ pc[p] = "rq_sleep"
    /\ pc' = [pc EXCEPT ![p] = "rq_loop"]
    /\ UNCHANGED <<conf, nextId, files, op, query, res, query_state, prVars,
                   outcome, trace>>

\* Line 66: time.sleep(1), then back to the test of the condition.
rq_sleep(p) ==
    /\ pc[p] = "rq_sleep"
    /\ trace' = Log(p, Event("sleep", None, "1", ""))
    /\ pc' = [pc EXCEPT ![p] = "rq_loop"]
    /\ UNCHANGED <<conf, nextId, files, op, query, res, query_state, prVars,
                   outcome>>

\* Lines 67-68, reached by the break or by the condition turning false:
\* return res.  In create_query, lines 80-81, process_result(res) follows.
rq_return(p) ==
    /\ \/ pc[p] = "rq_done"
       \/ pc[p] = "rq_loop" /\ ~LoopCondition(query_state[p])
    /\ IF op[p] = "create_query"
       THEN pc' = [pc EXCEPT ![p] = "pr_download"] /\ UNCHANGED outcome
       ELSE Finish(p, Return(IF res[p] = None THEN NoneValue
                             ELSE Response(res[p])))
    /\ UNCHANGED <<conf, nextId, files, op, query, res, query_state, prVars,
                   trace>>

(***************************************************************************)
(* process_result                                                          *)
(***************************************************************************)
\* The except clause re-raising when the code is "404".
download_result_raises404(d) ==
    CASE d = "ok" -> Running
      [] d = "client_error" -> Return(NoneValue)
      [] OTHER -> Raise(IF d = "404" THEN "ClientError" ELSE "BotoCoreError", <<d>>)

\* The except clause returning None for "404" alone and re-raising the rest.
download_result_only404(d) ==
    CASE d = "ok" -> Running
      [] d = "404" -> Return(NoneValue)
      [] OTHER -> Raise(IF d = "client_error" THEN "ClientError"
                        ELSE "BotoCoreError", <<d>>)

\* Lines 91-104: what the try / except around download_file makes of the
\* download's outcome.  "404" and "client_error" are ClientErrors, caught:
\* a message is printed and None returned.  "other_error" is any exception
\* that is no ClientError (a BotoCoreError such as a connection failure):
\* no handler matches and it reaches the caller.
download_result(d) ==
    CASE d = "ok" -> Running
      [] d = "404" -> Return(NoneValue)
      [] d = "client_error" -> Return(NoneValue)
      [] OTHER -> Raise("BotoCoreError", <<d>>)

\* The cleanup left out.
os_remove_skipped(fs, name) == fs

\* Line 114: os.remove(file_name).
os_remove(fs, name) == [fs EXCEPT ![name] = NoFile]

\* A transform that loses the first row of a chunk.
chunk_processing_dropsRow(chunk) == IF chunk = <<>> THEN chunk ELSE Tail(chunk)

\* Lines 117-124: the identity.
chunk_processing(chunk) == chunk

RECURSIVE pd_concat(_)
\* Line 112: pd.concat(df_parts), the parts' rows in the order of the list.
pd_concat(parts) ==
    IF parts = <<>> THEN <<>> ELSE Head(parts) \o pd_concat(Tail(parts))

\* The error swallowed and the chunks read so far returned.
parse_error_result_partial(parts) ==
    Return(Table(IF parts = <<>> THEN <<>> ELSE Head(parts)))

\* Lines 106-112 when the reader raises: nothing catches the error.
parse_error_result(parts) == Raise("ParserError", <<"malformed CSV">>)

\* Lines 113-115: the finally clause, then the pending return or raise.
\* os.remove of a file that is gone raises in its turn.
Cleanup(p, o) ==
    IF files[file_name[p]].exists
    THEN /\ files' = os_remove(files, file_name[p])
         /\ trace' = Log(p, Event("os.remove", file_name[p][1], "ok", ""))
         /\ Finish(p, o)
    ELSE /\ UNCHANGED files
         /\ trace' = Log(p, Event("os.remove", file_name[p][1], "error", ""))
         /\ Finish(p, Raise("FileNotFoundError", <<"os.remove">>))

\* Lines 91-104: the download.  A download that fails writes no file under
\* file_name.
pr_download(p) ==
    /\ pc[p] = "pr_download"
    /\ IF res[p] = None
       THEN \* None['QueryExecutionId'], line 93: a TypeError, not caught
            /\ Finish(p, Raise("TypeError", <<"NoneType">>))
            /\ UNCHANGED <<files, file_name, blob, trace>>
       ELSE \E d \in DownloadOutcomes :
            \E c \in IF d = "ok" THEN Contents ELSE {NoFile} :
            LET name == FileNameOf(res[p])
                r == download_result(d)
            IN  /\ file_name' = [file_name EXCEPT ![p] = name]
                /\ trace' = Log(p, Event("download_file", res[p], d, conf.s3_bucket))
                /\ blob' = [blob EXCEPT ![p] = c]
                /\ files' = IF d = "ok" THEN [files EXCEPT ![name] = c] ELSE files
                /\ IF r.kind = "none"
                   THEN pc' = [pc EXCEPT ![p] = "pr_read"] /\ UNCHANGED outcome
                   ELSE Finish(p, r)
    /\ UNCHANGED <<conf, nextId, op, query, res, query_state, df_parts, cursor>>

\* Lines 109-110: the reader yields the next chunk of the file.
pr_chunk(p) ==
    /\ pc[p] = "pr_read"
    /\ LET f == files[file_name[p]]
       IN  /\ f.exists
           /\ cursor[p] < Len(f.chunks)
           /\ df_parts' = [df_parts EXCEPT ![p] =
                              Append(@, chunk_processing(f.chunks[cursor[p] + 1]))]
           /\ cursor' = [cursor EXCEPT ![p] = @ + 1]
    /\ UNCHANGED <<conf, nextId, files, pc, op, query, res, query_state,
                   file_name, outcome, trace, blob>>

\* Lines 107-110 raising (read_csv or a later read of the iterator): the
\* finally clause runs and the error goes on to the caller.
pr_fail(p) ==
    /\ pc[p] = "pr_read"
    /\ LET f == files[file_name[p]]
       IN  \/ ~f.exists
           \/ cursor[p] = Len(f.chunks) /\ f.bad
    /\ Cleanup(p, parse_error_result(df_parts[p]))
    /\ UNCHANGED <<conf, nextId, op, query, res, query_state, prVars>>

\* Lines 112-115: the reader is exhausted; concatenate, clean up, return df.
pr_finish(p) ==
    /\ pc[p] = "pr_read"
    /\ LET f == files[file_name[p]]
       IN  f.exists /\ cursor[p] = Len(f.chunks) /\ ~f.bad
    /\ Cleanup(p, Return(Table(pd_concat(df_parts[p]))))
    /\ UNCHANGED <<conf, nextId, op, query, res, query_state, prVars>>

(***************************************************************************)
(* The program: one thread, one invocation after the other.                *)
(***************************************************************************)
Call(p) ==
    \/ call_load_conf(p)
    \/ call_run_query(p)
    \/ call_create_query(p)
    \/ call_process_result(p)

Run(p) ==
    \/ load_conf(p)
    \/ rq_poll(p)
    \/ rq_sleep(p)
    \/ rq_return(p)
    \/ pr_download(p)
    \/ pr_chunk(p)
    \/ pr_fail(p)
    \/ pr_finish(p)

Next == \E p \in Callers : Call(p) \/ Run(p)

Spec == Init /\ [][Next]_vars

\* The thread runs: a step of an invocation under way is eventually taken.
LiveSpec == Spec /\ \A p \in Callers : WF_vars(Run(p))

(***************************************************************************)
(* process_result called from several threads of the same process, the     *)
(* calls interleaving step by step.  A thread is handed a response whose   *)
(* execution id no invocation under way in another thread holds; with two  *)
(* threads, two ids are all that can be held at a time.                    *)
(***************************************************************************)
ConcHandles == {1, 2}

conc_call_process_result(p) ==
    \E r \in ConcHandles :
        /\ \A q \in Procs \ {p} : pc[q] # "idle" => res[q] # r
        /\ Enter(p, "process_result", "", r, "pr_download")

ConcNext ==
    \E p \in Procs :
        \/ conc_call_process_result(p)
        \/ pr_download(p)
        \/ pr_chunk(p)
        \/ pr_fail(p)
        \/ pr_finish(p)

ConcSpec == Init /\ [][ConcNext]_vars

(***************************************************************************)
(* Vocabulary of the properties.                                           *)
(***************************************************************************)
\* Thread p has finished an invocation.
Finished(p) == pc[p] = "idle" /\ outcome[p].kind # "none"

\* Thread p is in, or has been through, run_query.
InRunQuery(p) == op[p] \in {"run_query", "create_query"}

\* Thread p is in, or has been through, process_result.
InProcessResult(p) == op[p] \in {"process_result", "create_query"}

\* Thread p is inside run_query's body.
AtRunQuery(p) == pc[p] \in {"load_conf", "rq_loop", "rq_sleep", "rq_done"}

Contains(msg, x) == \E i \in 1 .. Len(msg) : msg[i] = x

LastOf(s) == s[Len(s)]

\* The download_file calls of thread p, and the answer to the one made.
Downloads(p) == SelectSeq(trace[p], LAMBDA e : e.call = "download_file")
Downloaded(p, d) == Downloads(p) # <<>> /\ Downloads(p)[1].result = d

\* The rows 1 .. n in order.
RowsInOrder(n) == [i \in 1 .. n |-> i]

C2_SucceededReturnsAfterNPlusOnePolls ==
    \A p \in Procs :
        \A k \in 1 .. Len(Polled(p)) :
            Polled(p)[k].result = "SUCCEEDED" =>
                /\ k = Len(Polled(p))
                /\ \A j \in 1 .. k - 1 : Polled(p)[j].result \in PendingStates
                /\ Calls(p, "get_query_execution") = PendingSeen(p) + 1
                /\ pc[p] \notin {"rq_loop", "rq_sleep"}
                /\ op[p] = "run_query" =>
                    \/ pc[p] = "rq_done"
                    \/ Finished(p) /\ outcome[p] = Return(Response(res[p]))

C2_Witness ==
    \E p \in Procs :
        /\ op[p] = "run_query" /\ Finished(p)
        /\ outcome[p].kind = "return"
        /\ Calls(p, "get_query_execution") = 3
        /\ [k \in 1 .. 3 |-> Polled(p)[k].result]
               = <<"QUEUED", "RUNNING", "SUCCEEDED">>

(***************************************************************************)
(* C3.  In run_query and create_query the only errors that reach the       *)
(* caller are the execution-failed exception and the parse error; after a  *)
(* failed submission or a failed download the invocation ends by           *)
(* returning an absent or empty result.                                    *)
(***************************************************************************)
C3_OnlyExecutionAndParseErrorsSurface ==
    \A p \in Procs :
        (InRunQuery(p) /\ Finished(p)) =>
            /\ outcome[p].kind = "raise" =>
                   outcome[p].err \in {"Exception", "ParserError"}
            /\ (trace[p][1].result = "error"
                    \/ (Downloads(p) # <<>> /\ ~Downloaded(p, "ok"))) =>
                   /\ outcome[p].kind = "return"
                   /\ outcome[p].val \in {NoneValue, Table(<<>>)}

(***************************************************************************)
(* C4.  load_conf always ends by returning: None when the service's        *)
(* start_query_execution failed, the service's response with the           *)
(* execution id when it succeeded.  Called from run_query, that value      *)
(* becomes res.                                                            *)
(***************************************************************************)
C4_LoadConfNeverPropagates ==
    \A p \in Procs :
        /\ (op[p] = "load_conf" /\ pc[p] = "idle" /\ trace[p] # <<>>) =>
            LET submit == trace[p][1]
            IN  /\ outcome[p].kind = "return"
                /\ submit.result = "error" => outcome[p].val = NoneValue
                /\ submit.result = "ok" => outcome[p].val = Response(submit.id)
        /\ (InRunQuery(p) /\ trace[p] # <<>>) =>
            /\ trace[p][1].call = "start_query_execution"
            /\ res[p] = trace[p][1].id

C4_Witness ==
    \E p \in Procs :
        /\ op[p] = "load_conf" /\ Finished(p)
        /\ trace[p][1].result = "error"
        /\ outcome[p] = Return(NoneValue)

(***************************************************************************)
(* C5.  When process_result has ended, by whatever exit - the return of    *)
(* df, the parse error, the early return after a failed download - no      *)
(* file of the name <id>.csv it used is left on the filesystem.            *)
(***************************************************************************)
C5_ScratchFileGoneAfterProcessResult ==
    \A p \in Procs :
        (InProcessResult(p) /\ Finished(p) /\ res[p] # None) =>
            ~files[FileNameOf(res[p])].exists

C5_Witness ==
    \E p \in Procs :
        /\ op[p] = "process_result" /\ Finished(p)
        /\ Downloaded(p, "ok")
        /\ outcome[p].kind = "return" /\ outcome[p].val.tag = "table"
        /\ Calls(p, "os.remove") = 1
        /\ ~files[file_name[p]].exists

(***************************************************************************)
(* C6, as claimed.  After a download answered "not found", process_result  *)
(* ends without an error, returning an empty table of zero rows, and has   *)
(* read no chunk.                                                          *)
(***************************************************************************)
C6_NotFoundReturnsEmptyTable ==
    \A p \in Procs :
        (InProcessResult(p) /\ Downloaded(p, "404")) =>
            /\ Finished(p)
            /\ outcome[p] = Return(Table(<<>>))
            /\ cursor[p] = 0 /\ df_parts[p] = <<>>

(***************************************************************************)
(* C6, amended.  After a download answered "not found", process_result     *)
(* ends without an error, returning None - no table at all - and has read  *)
(* no chunk and removed no file.                                           *)
(***************************************************************************)
C6_NotFoundReturnsNone ==
    \A p \in Procs :
        (InProcessResult(p) /\ Downloaded(p, "404")) =>
            /\ Finished(p)
            /\ outcome[p] = Return(NoneValue)
            /\ cursor[p] = 0 /\ df_parts[p] = <<>>
            /\ Calls(p, "os.remove") = 0

C6_Witness ==
    \E p \in Procs :
        /\ op[p] = "process_result" /\ Finished(p)
        /\ Downloaded(p, "404")
        /\ outcome[p].kind = "return" /\ outcome[p].val.tag = "None"

C8_ParseErrorPropagatesAfterCleanup ==
    \A p \in Procs :
        /\ (InProcessResult(p) /\ Finished(p) /\ Downloaded(p, "ok")
                /\ blob[p].bad) =>
            /\ outcome[p].kind = "raise"
            /\ outcome[p].err = "ParserError"
            /\ outcome[p].val.tag # "table"
            /\ Len(df_parts[p]) = Len(blob[p].chunks)
            /\ ~files[file_name[p]].exists
        /\ (InProcessResult(p) /\ outcome[p].err = "ParserError") =>
            /\ blob[p].bad
            /\ ~files[file_name[p]].exists

C8_Witness ==
    \E p \in Procs :
        /\ op[p] = "process_result" /\ Finished(p)
        /\ blob[p].bad /\ Len(blob[p].chunks) = 1 /\ Len(df_parts[p]) = 1
        /\ outcome[p].err = "ParserError"
        /\ Calls(p, "os.remove") = 1
        /\ ~files[file_name[p]].exists

(***************************************************************************)
(* C9.  For a well-formed downloaded file read as N >= 1 chunks of sizes   *)
(* c1..cN: every processed chunk equals the chunk read, and the table      *)
(* returned holds the file's rows 1, 2, ..., c1 + ... + cN, each once and  *)
(* in that order.                                                          *)
(***************************************************************************)
C9_ChunksConcatenatedInOrder ==
    \A p \in Procs :
        (InProcessResult(p) /\ Downloaded(p, "ok")) =>
            LET sizes == [k \in 1 .. Len(blob[p].chunks) |->
                              Len(blob[p].chunks[k])]
            IN  /\ \A k \in 1 .. Len(df_parts[p]) :
                       df_parts[p][k] = blob[p].chunks[k]
                /\ (Finished(p) /\ ~blob[p].bad) =>
                    /\ Len(sizes) >= 1
                    /\ outcome[p].kind = "return"
                    /\ outcome[p].val.tag = "table"
                    /\ Len(outcome[p].val.rows) = Sum(sizes)
                    /\ outcome[p].val.rows = RowsInOrder(Sum(sizes))

C9_Witness ==
    \E p \in Procs :
        /\ InProcessResult(p) /\ Finished(p)
        /\ blob[p].chunks = <<<<1, 2>>, <<3>>>> /\ ~blob[p].bad
        /\ outcome[p].val = Table(<<1, 2, 3>>)

(***************************************************************************)
(* C10.  While the last status fetched is QUEUED or RUNNING, run_query has *)
(* neither returned nor raised: it is at the sleep or back at the poll,    *)
(* whatever the number of polls so far.  And, the service giving at most   *)
(* MaxPending such answers for one execution and the thread being          *)
(* scheduled, an invocation inside run_query eventually leaves it, by      *)
(* return or by raise.                                                     *)
(***************************************************************************)
C10_PollsUntilTerminalThenTerminates ==
    /\ [](\A p \in Procs :
            (InRunQuery(p) /\ query_state[p] \in PendingStates) =>
                /\ pc[p] \in {"rq_loop", "rq_sleep"}
                /\ outcome[p].kind = "none"
                /\ Calls(p, "get_query_execution") = PendingSeen(p))
    /\ \A p \in Callers : AtRunQuery(p) ~> ~AtRunQuery(p)

C10_Witness ==
    \E p \in Procs :
        /\ op[p] = "run_query" /\ Finished(p)
        /\ PendingSeen(p) = MaxPending
        /\ Calls(p, "get_query_execution") = MaxPending + 1
        /\ Calls(p, "sleep") = MaxPending

(***************************************************************************)
(* C11.  Two invocations of process_result that interleave, holding        *)
(* distinct execution ids, use distinct scratch files: from its download   *)
(* to its cleanup an invocation's file holds what its own download wrote   *)
(* (the other neither overwrote nor removed it), every chunk it has read   *)
(* is a chunk of its own blob, its os.remove finds the file, and what it   *)
(* returns is the table of its own blob.                                   *)
(***************************************************************************)
C11_DistinctHandlesDoNotCollide ==
    \A p \in Procs :
        /\ \A q \in Procs \ {p} :
               (pc[p] = "pr_read" /\ pc[q] = "pr_read") =>
                   file_name[p] # file_name[q]
        /\ pc[p] = "pr_read" => files[file_name[p]] = blob[p]
        /\ \A k \in 1 .. Len(df_parts[p]) : df_parts[p][k] = blob[p].chunks[k]
        /\ outcome[p].err # "FileNotFoundError"
        /\ (Finished(p) /\ Downloaded(p, "ok")) =>
            /\ Calls(p, "os.remove") = 1
            /\ IF blob[p].bad
               THEN outcome[p].err = "ParserError"
               ELSE outcome[p] = Return(Table(pd_concat(blob[p].chunks)))

C11_Witness ==
    /\ pc[1] = "pr_read" /\ cursor[1] = 1
    /\ Finished(2) /\ Downloaded(2, "ok")
    /\ res[1] # res[2]
    /\ blob[1].chunks = <<<<1, 2>>, <<3>>>>
    /\ files[file_name[1]] = blob[1]
    /\ outcome[2] = Return(Table(<<1>>))

(***************************************************************************)
(* C12.  A run of run_query or create_query uses one execution id: it      *)
(* submits once, first of all; res is the id that submission produced;     *)
(* every status poll, the download and the removal are made with that id;  *)
(* the scratch file name is <id>.csv; and run_query, returning normally,   *)
(* returns the response carrying that id.                                  *)
(***************************************************************************)
C12_OneHandlePerRun ==
    \A p \in Procs :
        (InRunQuery(p) /\ trace[p] # <<>>) =>
            LET handle == trace[p][1].id
            IN  /\ trace[p][1].call = "start_query_execution"
                /\ Calls(p, "start_query_execution") = 1
                /\ res[p] = handle
                /\ \A i \in 2 .. Len(trace[p]) :
                       trace[p][i].call \in {"get_query_execution",
                                             "download_file", "os.remove"} =>
                           handle # None /\ trace[p][i].id = handle
                /\ file_name[p] # NoName => file_name[p] = <<handle, ".csv">>
                /\ (op[p] = "run_query" /\ outcome[p].kind = "return") =>
                       handle # None /\ outcome[p].val = Response(handle)

C12_Witness ==
    \E p \in Procs :
        /\ op[p] = "create_query" /\ Finished(p)
        /\ trace[p][1].id = 2
        /\ Calls(p, "get_query_execution") = 2
        /\ Calls(p, "download_file") = 1
        /\ Calls(p, "os.remove") = 1
        /\ file_name[p] = <<2, ".csv">>
        /\ outcome[p].val.tag = "table"

(***************************************************************************)
(* C13.  In the calls run_query makes: a poll answered QUEUED or RUNNING   *)
(* is followed by one sleep of 1 and then by the next poll; a poll         *)
(* answered SUCCEEDED, FAILED or CANCELLED is followed by no sleep and no  *)
(* poll; and between two polls that follow each other there is exactly one *)
(* sleep.                                                                  *)
(***************************************************************************)
C13_OneWaitBetweenPolls ==
    \A p \in Procs :
        InRunQuery(p) =>
        \A i \in 1 .. Len(trace[p]) :
            LET e == trace[p][i]
                IsSleep(j) == /\ trace[p][j].call = "sleep"
                              /\ trace[p][j].result = "1"
                IsPoll(j) == trace[p][j].call = "get_query_execution"
            IN  /\ (IsPoll(i) /\ e.result \in PendingStates) =>
                    /\ i = Len(trace[p]) => pc[p] = "rq_sleep"
                    /\ i < Len(trace[p]) => IsSleep(i + 1)
                    /\ i + 1 = Len(trace[p]) => pc[p] = "rq_loop"
                    /\ i + 1 < Len(trace[p]) => IsPoll(i + 2)
                /\ (IsPoll(i) /\ e.result \in {"SUCCEEDED", "FAILED", "CANCELLED"}) =>
                    /\ pc[p] # "rq_sleep"
                    /\ \A j \in i + 1 .. Len(trace[p]) : ~IsSleep(j) /\ ~IsPoll(j)
                /\ (IsPoll(i) /\ i > 2) => IsSleep(i - 1) /\ IsPoll(i - 2)
                /\ trace[p][i].call = "sleep" => i > 1 /\ IsPoll(i - 1)

C13_Witness ==
    \E p \in Procs :
        /\ op[p] = "run_query" /\ Finished(p)
        /\ [i \in 1 .. Len(trace[p]) |-> trace[p][i].call] =
               <<"start_query_execution", "get_query_execution", "sleep",
                 "get_query_execution", "sleep", "get_query_execution">>
        /\ LastOf(Polled(p)).result = "SUCCEEDED"

(***************************************************************************)
(* C14.  In create_query the calls come in the order submit, poll, fetch:  *)
(* one submission, first of all; a download only after a poll answered     *)
(* SUCCEEDED; no download after a poll answered FAILED or CANCELLED.       *)
(***************************************************************************)
C14_SubmitPollFetchInOrder ==
    \A p \in Procs :
        (op[p] = "create_query" /\ trace[p] # <<>>) =>
            /\ trace[p][1].call = "start_query_execution"
            /\ Calls(p, "start_query_execution") = 1
            /\ \A i \in 1 .. Len(trace[p]) :
                /\ trace[p][i].call = "download_file" =>
                    \E j \in 1 .. i - 1 :
                        /\ trace[p][j].call = "get_query_execution"
                        /\ trace[p][j].result = "SUCCEEDED"
                /\ (trace[p][i].call = "get_query_execution"
                        /\ trace[p][i].result \in ErrorStates) =>
                    \A j \in i + 1 .. Len(trace[p]) :
                        trace[p][j].call # "download_file"

(***************************************************************************)
(* C15.  No step changes the configuration set at construction: bucket,    *)
(* output location, database and table stay what __init__ made them, on    *)
(* every path; and the query create_query submits is always the one built  *)
(* from that database and table.                                           *)
(***************************************************************************)
C15_ConfigurationNeverChanges ==
    /\ [][conf' = conf]_vars
    /\ [](\A p \in Procs :
            op[p] = "create_query" =>
                /\ query[p] = FormatQuery(conf.database, conf.table)
                /\ \A i \in 1 .. Len(trace[p]) :
                       trace[p][i].call = "start_query_execution" =>
                           trace[p][i].reason = query[p]
                /\ \A i \in 1 .. Len(trace[p]) :
                       trace[p][i].call = "download_file" =>
                           trace[p][i].reason = conf.s3_bucket)

C15_Witness ==
    \E p \in Procs :
        /\ op[p] = "create_query" /\ Finished(p)
        /\ nextId = 3
        /\ outcome[p].kind = "raise"
        /\ conf.table = "tbl"
        /\ query[p] = "SELECT * FROM db.tbl LIMIT 10"

(***************************************************************************)
(* C16.  run_query returns normally - and create_query goes on to the      *)
(* download - only when the last status fetched was SUCCEEDED, whatever    *)
(* values the service answers.                                             *)
(***************************************************************************)
C16_NormalReturnOnlyAfterSucceeded ==
    \A p \in Procs :
        (InRunQuery(p)
            /\ \/ op[p] = "run_query" /\ outcome[p].kind = "return"
               \/ pc[p] \in {"pr_download", "pr_read"}
               \/ Downloads(p) # <<>>) =>
            /\ Polled(p) # <<>>
            /\ LastOf(Polled(p)).result = "SUCCEEDED"

====
